---- MODULE Spec2Model ----
(***************************************************************************)
(* Model of rbx_binary's text deserializer (the "Diagnostic Mirror"):      *)
(* DecodedModel::from_reader and the chunk decoders it dispatches to.      *)
(* One step of the model is one iteration of from_reader's loop.           *)
(* Bytes are naturals 0..255, byte strings are sequences of bytes.         *)
(*                                                                         *)
(* The second part models generate_reflection's defaults_place:            *)
(* apply_defaults_from_fixture_place and find_descriptors.  One step is    *)
(* one iteration of the breadth-first walk.                                *)
(***************************************************************************)
EXTENDS Integers, Sequences, FiniteSets, TLC

VARIABLES
    header,            \* the file header the byte source starts with
    unread,            \* the frames left unread in the source when the scan stopped
    source,            \* the frames read from the source so far, in order
    status,            \* "start", "scanning", "done" or "panicked"
    chunks,            \* from_reader's local `chunks`
    count_by_type_id,  \* from_reader's local `count_by_type_id`
    result,            \* the DecodedModel returned, if any
    diagnostics        \* what the decode has written to a log/diagnostic sink

VARIABLES
    database,          \* the ReflectionDatabase apply_defaults_from_fixture_place updates
    tree,              \* the RbxTree read back from the re-saved place
    found_classes,     \* the walk's local `found_classes`
    to_visit,          \* the walk's local `to_visit`
    walk,              \* "idle", "walking", "done" or "panicked"
    log,               \* the records written with log::info!, log::warn! and log::error!
    inserted,          \* the calls of default_properties.insert, in order
    visited            \* the ids popped from to_visit, in order

reader_vars ==
    <<header, unread, source, status, chunks, count_by_type_id, result, diagnostics>>
walk_vars == <<database, tree, found_classes, to_visit, walk, log, inserted, visited>>
vars == <<reader_vars, walk_vars>>

(***************************************************************************)
(* Bounds of the model.                                                    *)
(***************************************************************************)
\* longest file, in chunk frames
MaxChunks == 3
\* largest instance count an INST chunk declares
MaxCount == 2

(***************************************************************************)
(* Byte-string helpers.                                                    *)
(***************************************************************************)
Take(s, n) == SubSeq(s, 1, n)
Drop(s, n) == SubSeq(s, n + 1, Len(s))
Zeros(n) == [i \in 1..n |-> 0]
Min(a, b) == IF a < b THEN a ELSE b

RECURSIVE Concat(_)
Concat(ss) == IF ss = <<>> THEN <<>> ELSE Head(ss) \o Concat(Tail(ss))

(***************************************************************************)
(* UTF-8, as std's String::from_utf8 and String::from_utf8_lossy treat it. *)
(* Utf8Step(s) decodes the scalar value at the head of the non-empty byte  *)
(* string s: cp is the code point (-1 when the head is not the start of a  *)
(* well-formed sequence) and n the number of bytes it covers (for an       *)
(* ill-formed head: the maximal prefix of a well-formed sequence).         *)
(***************************************************************************)
IsCont(s, i, lo, hi) == Len(s) >= i /\ s[i] >= lo /\ s[i] <= hi

Utf8Step(s) ==
    LET b == s[1]
        lo2 == IF b = 224 THEN 160 ELSE IF b = 240 THEN 144 ELSE 128
        hi2 == IF b = 237 THEN 159 ELSE IF b = 244 THEN 143 ELSE 191
    IN  IF b < 128 THEN [cp |-> b, n |-> 1]
        ELSE IF b >= 194 /\ b <= 223 THEN
            IF IsCont(s, 2, 128, 191)
            THEN [cp |-> (b - 192) * 64 + (s[2] - 128), n |-> 2]
            ELSE [cp |-> -1, n |-> 1]
        ELSE IF b >= 224 /\ b <= 239 THEN
            IF ~IsCont(s, 2, lo2, hi2) THEN [cp |-> -1, n |-> 1]
            ELSE IF ~IsCont(s, 3, 128, 191) THEN [cp |-> -1, n |-> 2]
            ELSE [cp |-> (b - 224) * 4096 + (s[2] - 128) * 64 + (s[3] - 128), n |-> 3]
        ELSE IF b >= 240 /\ b <= 244 THEN
            IF ~IsCont(s, 2, lo2, hi2) THEN [cp |-> -1, n |-> 1]
            ELSE IF ~IsCont(s, 3, 128, 191) THEN [cp |-> -1, n |-> 2]
            ELSE IF ~IsCont(s, 4, 128, 191) THEN [cp |-> -1, n |-> 3]
            ELSE [cp |-> (b - 240) * 262144 + (s[2] - 128) * 4096
                         + (s[3] - 128) * 64 + (s[4] - 128), n |-> 4]
        ELSE [cp |-> -1, n |-> 1]

\* the scalar values of s, with -1 standing for each ill-formed subsequence
RECURSIVE Utf8Scan(_)
Utf8Scan(s) ==
    IF s = <<>> THEN <<>>
    ELSE LET st == Utf8Step(s) IN <<st.cp>> \o Utf8Scan(Drop(s, st.n))

\* String::from_utf8(bytes).is_ok()
Utf8Valid(s) == Utf8Scan(s) \in Seq(Nat)

\* String::from_utf8_lossy(bytes): ill-formed subsequences become U+FFFD.
\* A String is modelled as its sequence of scalar values.
Replace(cps) == [i \in DOMAIN cps |-> IF cps[i] = -1 THEN 65533 ELSE cps[i]]
from_utf8_lossy(s) == Replace(Utf8Scan(s))

(***************************************************************************)
(* Readers.  Each takes the unread bytes b of a payload and yields         *)
(* [ok, val, rest]: ok is FALSE when the read returns Err (which every     *)
(* caller unwraps), val is the value read and rest the bytes left unread.  *)
(***************************************************************************)
ErrInt == [ok |-> FALSE, val |-> 0, rest |-> <<>>]
ErrSeq == [ok |-> FALSE, val |-> <<>>, rest |-> <<>>]

\* byteorder: ReadBytesExt::read_u8
read_u8(b) ==
    IF Len(b) >= 1 THEN [ok |-> TRUE, val |-> b[1], rest |-> Drop(b, 1)] ELSE ErrInt

\* byteorder: ReadBytesExt::read_u32::<LittleEndian> (the counts and lengths of
\* the inputs stay below 2^31)
read_u32(b) ==
    IF Len(b) >= 4
    THEN [ok |-> TRUE,
          val |-> b[1] + 256 * b[2] + 65536 * b[3] + 16777216 * b[4],
          rest |-> Drop(b, 4)]
    ELSE ErrInt

\* byteorder: ReadBytesExt::read_f64::<LittleEndian>; an f64 is modelled as
\* its bit pattern, most significant byte first
read_f64(b) ==
    IF Len(b) >= 8
    THEN [ok |-> TRUE, val |-> [i \in 1..8 |-> b[9 - i]], rest |-> Drop(b, 8)]
    ELSE ErrSeq

\* std: Read::read_to_end on a slice: everything left, never an error
read_to_end(b) == b

\* RbxReadExt::read_binary_string: u32 length, then that many raw bytes
read_binary_string(b) ==
    LET len == read_u32(b)
    IN  IF len.ok /\ Len(len.rest) >= len.val
        THEN [ok |-> TRUE, val |-> Take(len.rest, len.val), rest |-> Drop(len.rest, len.val)]
        ELSE ErrSeq

\* RbxReadExt::read_string: a binary string that must be valid UTF-8
read_string(b) ==
    LET raw == read_binary_string(b)
    IN  IF raw.ok /\ Utf8Valid(raw.val)
        THEN [ok |-> TRUE, val |-> Utf8Scan(raw.val), rest |-> raw.rest]
        ELSE ErrSeq

\* RbxReadExt::read_bool: one byte, any non-zero byte is true
read_bool(b) ==
    IF Len(b) >= 1
    THEN [ok |-> TRUE, val |-> (b[1] # 0), rest |-> Drop(b, 1)]
    ELSE [ok |-> FALSE, val |-> FALSE, rest |-> <<>>]

\* Byte-plane transposition of n 32-bit elements: plane k holds byte k (most
\* significant first) of every element.  Element i of the n elements at the
\* head of b, as its four bytes.
Element32(b, n, i) == <<b[i], b[i + n], b[i + 2 * n], b[i + 3 * n]>>

\* sign-folding undone on the 32-bit pattern e: (e >> 1) ^ -(e & 1), so that
\* 0, 1, 2, 3, ... stand for 0, -1, 1, -2, ...
untransform_i32(e) ==
    LET half == e[1] * 8388608 + e[2] * 32768 + e[3] * 128 + (e[4] \div 2)
    IN  IF e[4] % 2 = 0 THEN half ELSE -half - 1

\* the 32-bit pattern e as a two's-complement number (an f32 is modelled as
\* its bit pattern)
Bits32(e) == (IF e[1] >= 128 THEN e[1] - 256 ELSE e[1]) * 16777216
             + e[2] * 65536 + e[3] * 256 + e[4]

\* RbxReadExt::read_interleaved_i32_array, filling a slice of length n;
\* truncated input is an error
read_interleaved_i32_array(b, n) ==
    IF n <= Len(b) \div 4
    THEN [ok |-> TRUE,
          val |-> [i \in 1..n |-> untransform_i32(Element32(b, n, i))],
          rest |-> Drop(b, 4 * n)]
    ELSE ErrSeq

\* RbxReadExt::read_interleaved_f32_array
read_interleaved_f32_array(b, n) ==
    IF n <= Len(b) \div 4
    THEN [ok |-> TRUE,
          val |-> [i \in 1..n |-> Bits32(Element32(b, n, i))],
          rest |-> Drop(b, 4 * n)]
    ELSE ErrSeq

\* RbxReadExt::read_referent_array: referents are an absolute interleaved,
\* sign-folded array
read_referent_array(b, n) == read_interleaved_i32_array(b, n)

\* x >> 1 on a big-endian byte string
ShiftRight1(x) ==
    [k \in DOMAIN x |-> (x[k] \div 2) + (IF k > 1 THEN (x[k - 1] % 2) * 128 ELSE 0)]

\* RbxReadExt::read_interleaved_i64_array: eight byte planes, sign-folded.  An
\* i64 is modelled as [neg, mag]: mag is the big-endian bytes of v >> 1 and
\* the value is mag when neg is FALSE and -mag - 1 when it is TRUE.
read_interleaved_i64_array(b, n) ==
    IF n <= Len(b) \div 8
    THEN [ok |-> TRUE,
          val |-> [i \in 1..n |->
                     LET v == [k \in 1..8 |-> b[i + (k - 1) * n]]
                     IN  [neg |-> (v[8] % 2 = 1), mag |-> ShiftRight1(v)]],
          rest |-> Drop(b, 8 * n)]
    ELSE ErrSeq

(***************************************************************************)
(* The loops `for _ in 0..n { values.push(reader.read_X().unwrap()) }`.    *)
(***************************************************************************)
RECURSIVE read_binary_strings(_, _)
read_binary_strings(b, n) ==
    IF n = 0 THEN [ok |-> TRUE, val |-> <<>>, rest |-> b]
    ELSE LET one == read_binary_string(b)
             more == read_binary_strings(one.rest, n - 1)
         IN  IF one.ok /\ more.ok
             THEN [ok |-> TRUE, val |-> <<one.val>> \o more.val, rest |-> more.rest]
             ELSE ErrSeq

RECURSIVE read_bools(_, _)
read_bools(b, n) ==
    IF n = 0 THEN [ok |-> TRUE, val |-> <<>>, rest |-> b]
    ELSE LET one == read_bool(b)
             more == read_bools(one.rest, n - 1)
         IN  IF one.ok /\ more.ok
             THEN [ok |-> TRUE, val |-> <<one.val>> \o more.val, rest |-> more.rest]
             ELSE ErrSeq

RECURSIVE read_f64s(_, _)
read_f64s(b, n) ==
    IF n = 0 THEN [ok |-> TRUE, val |-> <<>>, rest |-> b]
    ELSE LET one == read_f64(b)
             more == read_f64s(one.rest, n - 1)
         IN  IF one.ok /\ more.ok
             THEN [ok |-> TRUE, val |-> <<one.val>> \o more.val, rest |-> more.rest]
             ELSE ErrSeq

\* the (key, value) loop of decode_meta_chunk
RECURSIVE read_entries(_, _)
read_entries(b, n) ==
    IF n = 0 THEN [ok |-> TRUE, val |-> <<>>, rest |-> b]
    ELSE LET key == read_string(b)
             value == read_string(key.rest)
             more == read_entries(value.rest, n - 1)
         IN  IF key.ok /\ value.ok /\ more.ok
             THEN [ok |-> TRUE, val |-> <<<<key.val, value.val>>>> \o more.val, rest |-> more.rest]
             ELSE ErrSeq

\* Iterator::zip over two Vecs
Zip(xs, ys) == [i \in 1..Min(Len(xs), Len(ys)) |-> <<xs[i], ys[i]>>]

(***************************************************************************)
(* Type: the closed enumeration of value-type tags (Type::try_from(u8)).   *)
(***************************************************************************)
TypeNames ==
    [t \in {1, 2, 3, 4, 5, 6, 7, 8, 9, 10, 11, 12, 13, 14, 16, 18, 19,
            20, 21, 22, 23, 24, 25, 26, 27, 28} |->
        CASE t = 1 -> "String"       [] t = 2 -> "Bool"
          [] t = 3 -> "Int32"        [] t = 4 -> "Float32"
          [] t = 5 -> "Float64"      [] t = 6 -> "UDim"
          [] t = 7 -> "UDim2"        [] t = 8 -> "Ray"
          [] t = 9 -> "Faces"        [] t = 10 -> "Axes"
          [] t = 11 -> "BrickColor"  [] t = 12 -> "Color3"
          [] t = 13 -> "Vector2"     [] t = 14 -> "Vector3"
          [] t = 16 -> "CFrame"      [] t = 18 -> "Enum"
          [] t = 19 -> "Ref"         [] t = 20 -> "Vector3int16"
          [] t = 21 -> "NumberSequence" [] t = 22 -> "ColorSequence"
          [] t = 23 -> "NumberRange" [] t = 24 -> "Rect"
          [] t = 25 -> "PhysicalProperties" [] t = 26 -> "Color3uint8"
          [] t = 27 -> "Int64"       [] t = 28 -> "SharedString"]

\* prop_type_value.try_into(): Ok(Type) for a tag of the enumeration, else Err
Type_try_from(tag) ==
    IF tag \in DOMAIN TypeNames
    THEN [ok |-> TRUE, val |-> TypeNames[tag]]
    ELSE [ok |-> FALSE, val |-> ""]

(***************************************************************************)
(* RobloxString::from(Vec<u8>): String when the bytes are UTF-8, else the  *)
(* bytes themselves as a BinaryString.                                     *)
(***************************************************************************)
RobloxString_from(value) ==
    IF Utf8Valid(value)
    THEN [variant |-> "String", data |-> Utf8Scan(value)]
    ELSE [variant |-> "BinaryString", data |-> value]

(***************************************************************************)
(* DecodedValues::decode(reader, prop_count, prop_type) yields             *)
(* [ok, some, variant, vecs, rest]: ok is FALSE when a read was unwrapped  *)
(* on Err; some is FALSE for None; vecs are the Vecs the variant holds     *)
(* (two for Vector2, one for every other variant).                         *)
(***************************************************************************)
ValuesPanic == [ok |-> FALSE, some |-> FALSE, variant |-> "", vecs |-> <<>>, rest |-> <<>>]
ValuesSome(variant, vecs, rest) ==
    [ok |-> TRUE, some |-> TRUE, variant |-> variant, vecs |-> vecs, rest |-> rest]
ValuesNone(rest) ==
    [ok |-> TRUE, some |-> FALSE, variant |-> "", vecs |-> <<>>, rest |-> rest]

DecodedValues_decode(b, prop_count, prop_type) ==
    CASE prop_type = "String" ->
            LET v == read_binary_strings(b, prop_count)
            IN  IF v.ok
                THEN ValuesSome("String",
                         <<[i \in DOMAIN v.val |-> RobloxString_from(v.val[i])]>>, v.rest)
                ELSE ValuesPanic
      [] prop_type = "Bool" ->
            LET v == read_bools(b, prop_count)
            IN  IF v.ok THEN ValuesSome("Bool", <<v.val>>, v.rest) ELSE ValuesPanic
      [] prop_type = "Int32" ->
            LET v == read_interleaved_i32_array(b, prop_count)
            IN  IF v.ok THEN ValuesSome("Int32", <<v.val>>, v.rest) ELSE ValuesPanic
      [] prop_type = "Float32" ->
            LET v == read_interleaved_f32_array(b, prop_count)
            IN  IF v.ok THEN ValuesSome("Float32", <<v.val>>, v.rest) ELSE ValuesPanic
      [] prop_type = "Float64" ->
            LET v == read_f64s(b, prop_count)
            IN  IF v.ok THEN ValuesSome("Float64", <<v.val>>, v.rest) ELSE ValuesPanic
      [] prop_type = "UDim" ->
            LET scale == read_interleaved_f32_array(b, prop_count)
                offset == read_interleaved_i32_array(scale.rest, prop_count)
            IN  IF scale.ok /\ offset.ok
                THEN ValuesSome("UDim", <<Zip(scale.val, offset.val)>>, offset.rest)
                ELSE ValuesPanic
      [] prop_type = "UDim2" ->
            LET scale_x == read_interleaved_f32_array(b, prop_count)
                scale_y == read_interleaved_f32_array(scale_x.rest, prop_count)
                offset_x == read_interleaved_i32_array(scale_y.rest, prop_count)
                offset_y == read_interleaved_i32_array(offset_x.rest, prop_count)
            IN  IF scale_x.ok /\ scale_y.ok /\ offset_x.ok /\ offset_y.ok
                THEN ValuesSome("UDim2",
                         <<Zip(Zip(scale_x.val, offset_x.val), Zip(scale_y.val, offset_y.val))>>,
                         offset_y.rest)
                ELSE ValuesPanic
      [] prop_type = "Color3" ->
            LET r == read_interleaved_f32_array(b, prop_count)
                g == read_interleaved_f32_array(r.rest, prop_count)
                bl == read_interleaved_f32_array(g.rest, prop_count)
            IN  IF r.ok /\ g.ok /\ bl.ok
                THEN ValuesSome("Color3", <<Zip(Zip(r.val, g.val), bl.val)>>, bl.rest)
                ELSE ValuesPanic
      [] prop_type = "Vector2" ->
            LET x == read_interleaved_f32_array(b, prop_count)
                y == read_interleaved_f32_array(x.rest, prop_count)
            IN  IF x.ok /\ y.ok
                THEN ValuesSome("Vector2", <<x.val, y.val>>, y.rest)
                ELSE ValuesPanic
      [] prop_type = "Int64" ->
            LET v == read_interleaved_i64_array(b, prop_count)
            IN  IF v.ok THEN ValuesSome("Int64", <<v.val>>, v.rest) ELSE ValuesPanic
      [] OTHER -> ValuesNone(b)

(***************************************************************************)
(* The chunk decoders.  Each yields [ok, chunk, counts]: ok is FALSE when  *)
(* the decoder panics (an unwrap on Err), chunk is the DecodedChunk and    *)
(* counts is count_by_type_id as the decoder leaves it.                    *)
(***************************************************************************)
NoChunk == [kind |-> "None"]
Panicked(counts) == [ok |-> FALSE, chunk |-> NoChunk, counts |-> counts]
Decoded(chunk, counts) == [ok |-> TRUE, chunk |-> chunk, counts |-> counts]

\* an insert that keeps the value a key already has
Insert_keep_first(map, key, value) ==
    [k \in DOMAIN map \cup {key} |-> IF k \in DOMAIN map THEN map[k] ELSE value]

\* HashMap::insert
Insert(map, key, value) ==
    [k \in DOMAIN map \cup {key} |-> IF k = key THEN value ELSE map[k]]

\* decode_meta_chunk giving up on the entries it cannot read instead of panicking
decode_meta_chunk_lenient(data, counts) ==
    LET num_entries == read_u32(data)
        entries == read_entries(num_entries.rest, num_entries.val)
    IN  IF num_entries.ok /\ entries.ok
        THEN Decoded([kind |-> "Meta",
                      entries |-> entries.val,
                      remaining |-> read_to_end(entries.rest)], counts)
        ELSE Decoded([kind |-> "Meta", entries |-> <<>>, remaining |-> <<>>], counts)

decode_meta_chunk(data, counts) ==
    LET num_entries == read_u32(data)
        entries == read_entries(num_entries.rest, num_entries.val)
    IN  IF num_entries.ok /\ entries.ok
        THEN Decoded([kind |-> "Meta",
                      entries |-> entries.val,
                      remaining |-> read_to_end(entries.rest)], counts)
        ELSE Panicked(counts)

\* DecodedChunk::Inst { .. }, once the referents are read
Inst(type_id, type_name, object_format, referents, counts) ==
    IF ~referents.ok THEN Panicked(counts)
    ELSE Decoded([kind |-> "Inst",
                  type_id |-> type_id,
                  type_name |-> type_name,
                  object_format |-> object_format,
                  referents |-> referents.val,
                  remaining |-> read_to_end(referents.rest)], counts)

decode_inst_chunk(data, counts) ==
    LET type_id == read_u32(data)
        type_name == read_string(type_id.rest)
        object_format == read_u8(type_name.rest)
        num_instances == read_u32(object_format.rest)
    IN  IF ~(type_id.ok /\ type_name.ok /\ object_format.ok /\ num_instances.ok)
        THEN Panicked(counts)
        ELSE Inst(type_id.val, type_name.val, object_format.val,
                  read_referent_array(num_instances.rest, num_instances.val),
                  Insert(counts, type_id.val, num_instances.val))

\* the match refusing a type-id that no INST chunk has registered
prop_type_and_values_strict(prop_type_value, b, type_id, counts) ==
    LET prop_type == Type_try_from(prop_type_value)
    IN  IF prop_type.ok
        THEN [prop_type |-> [known |-> TRUE, type |-> prop_type.val, tag |-> prop_type_value],
              values |-> IF type_id \in DOMAIN counts
                         THEN DecodedValues_decode(b, counts[type_id], prop_type.val)
                         ELSE ValuesPanic]
        ELSE [prop_type |-> [known |-> FALSE, type |-> "", tag |-> prop_type_value],
              values |-> ValuesNone(b)]

\* the match refusing a tag outside the enumeration
prop_type_and_values_known_only(prop_type_value, b, type_id, counts) ==
    LET prop_type == Type_try_from(prop_type_value)
    IN  IF prop_type.ok
        THEN [prop_type |-> [known |-> TRUE, type |-> prop_type.val, tag |-> prop_type_value],
              values |-> IF type_id \in DOMAIN counts
                         THEN DecodedValues_decode(b, counts[type_id], prop_type.val)
                         ELSE ValuesNone(b)]
        ELSE [prop_type |-> [known |-> FALSE, type |-> "", tag |-> prop_type_value],
              values |-> ValuesPanic]

\* the match decoding one value less when the payload cannot supply the count
prop_type_and_values_shorter(prop_type_value, b, type_id, counts) ==
    LET prop_type == Type_try_from(prop_type_value)
    IN  IF prop_type.ok
        THEN [prop_type |-> [known |-> TRUE, type |-> prop_type.val, tag |-> prop_type_value],
              values |-> IF type_id \in DOMAIN counts
                         THEN IF DecodedValues_decode(b, counts[type_id], prop_type.val).ok
                              THEN DecodedValues_decode(b, counts[type_id], prop_type.val)
                              ELSE DecodedValues_decode(b, counts[type_id] - 1, prop_type.val)
                         ELSE ValuesNone(b)]
        ELSE [prop_type |-> [known |-> FALSE, type |-> "", tag |-> prop_type_value],
              values |-> ValuesNone(b)]

\* let (prop_type, values) = match prop_type_value.try_into() { .. }, reading
\* from the bytes b that follow the tag
prop_type_and_values(prop_type_value, b, type_id, counts) ==
    LET prop_type == Type_try_from(prop_type_value)
    IN  IF prop_type.ok
        THEN [prop_type |-> [known |-> TRUE, type |-> prop_type.val, tag |-> prop_type_value],
              values |-> IF type_id \in DOMAIN counts
                         THEN DecodedValues_decode(b, counts[type_id], prop_type.val)
                         ELSE ValuesNone(b)]
        ELSE [prop_type |-> [known |-> FALSE, type |-> "", tag |-> prop_type_value],
              values |-> ValuesNone(b)]

\* DecodedChunk::Prop { .. }, once the type and the values are decoded
Prop(type_id, prop_name, tv, counts) ==
    IF ~tv.values.ok THEN Panicked(counts)
    ELSE Decoded([kind |-> "Prop",
                  type_id |-> type_id,
                  prop_name |-> prop_name,
                  prop_type |-> tv.prop_type,
                  values |-> [some |-> tv.values.some,
                              variant |-> tv.values.variant,
                              vecs |-> tv.values.vecs],
                  remaining |-> read_to_end(tv.values.rest)], counts)

decode_prop_chunk(data, counts) ==
    LET type_id == read_u32(data)
        prop_name == read_string(type_id.rest)
        prop_type_value == read_u8(prop_name.rest)
    IN  IF ~(type_id.ok /\ prop_name.ok /\ prop_type_value.ok) THEN Panicked(counts)
        ELSE Prop(type_id.val, prop_name.val,
                  prop_type_and_values(prop_type_value.val, prop_type_value.rest,
                                       type_id.val, counts),
                  counts)

\* decode_prnt_chunk pairing each parent with its subject the wrong way round
decode_prnt_chunk_swapped(data, counts) ==
    LET version == read_u8(data)
        num_referents == read_u32(version.rest)
        subjects == read_referent_array(num_referents.rest, num_referents.val)
        parents == read_referent_array(subjects.rest, num_referents.val)
    IN  IF version.ok /\ num_referents.ok /\ subjects.ok /\ parents.ok
        THEN Decoded([kind |-> "Prnt",
                      version |-> version.val,
                      links |-> Zip(parents.val, subjects.val),
                      remaining |-> read_to_end(parents.rest)], counts)
        ELSE Panicked(counts)

\* decode_prnt_chunk with the parents read from where the subjects start
decode_prnt_chunk_overlap(data, counts) ==
    LET version == read_u8(data)
        num_referents == read_u32(version.rest)
        subjects == read_referent_array(num_referents.rest, num_referents.val)
        parents == read_referent_array(num_referents.rest, num_referents.val)
    IN  IF version.ok /\ num_referents.ok /\ subjects.ok /\ parents.ok
        THEN Decoded([kind |-> "Prnt",
                      version |-> version.val,
                      links |-> Zip(subjects.val, parents.val),
                      remaining |-> read_to_end(parents.rest)], counts)
        ELSE Panicked(counts)

decode_prnt_chunk(data, counts) ==
    LET version == read_u8(data)
        num_referents == read_u32(version.rest)
        subjects == read_referent_array(num_referents.rest, num_referents.val)
        parents == read_referent_array(subjects.rest, num_referents.val)
    IN  IF version.ok /\ num_referents.ok /\ subjects.ok /\ parents.ok
        THEN Decoded([kind |-> "Prnt",
                      version |-> version.val,
                      links |-> Zip(subjects.val, parents.val),
                      remaining |-> read_to_end(parents.rest)], counts)
        ELSE Panicked(counts)

(***************************************************************************)
(* Chunk names.                                                            *)
(***************************************************************************)
META == <<77, 69, 84, 65>>
INST == <<73, 78, 83, 84>>
PROP == <<80, 82, 79, 80>>
PRNT == <<80, 82, 78, 84>>
END0 == <<69, 78, 68, 0>>
KnownNames == {META, INST, PROP, PRNT, END0}

(***************************************************************************)
(* FileHeader::decode and Chunk::decode.  A header is                      *)
(* [magic_ok, complete, num_types, num_instances]; a frame is              *)
(* [name, declared, data, intact]: the 4-byte name, the length the frame   *)
(* header declares, and the payload it delivers (intact is a note on how   *)
(* the input was built, which no decoder reads).                           *)
(***************************************************************************)
FileHeader_decode(h) ==
    IF h.magic_ok /\ h.complete
    THEN [ok |-> TRUE, num_types |-> h.num_types, num_instances |-> h.num_instances]
    ELSE [ok |-> FALSE, num_types |-> 0, num_instances |-> 0]

Chunk_decode(f) ==
    IF f.declared = Len(f.data)
    THEN [ok |-> TRUE, name |-> f.name, data |-> f.data]
    ELSE [ok |-> FALSE, name |-> f.name, data |-> <<>>]

(***************************************************************************)
(* The match on chunk.name inside from_reader's loop.  Yields              *)
(* [ok, chunk, counts, break]: the chunk pushed, and whether the loop      *)
(* breaks after it.                                                        *)
(***************************************************************************)
Arm(r, brk) == [ok |-> r.ok, chunk |-> r.chunk, counts |-> r.counts, break |-> brk]

\* the match with the `break` of the END arm left out
from_reader_match_no_break(name, data, counts) ==
    CASE name = META -> Arm(decode_meta_chunk(data, counts), FALSE)
      [] name = INST -> Arm(decode_inst_chunk(data, counts), FALSE)
      [] name = PROP -> Arm(decode_prop_chunk(data, counts), FALSE)
      [] name = PRNT -> Arm(decode_prnt_chunk(data, counts), FALSE)
      [] name = END0 -> Arm(Decoded([kind |-> "End"], counts), FALSE)
      [] OTHER -> Arm(Decoded([kind |-> "Unknown",
                               name |-> from_utf8_lossy(name),
                               contents |-> data], counts), FALSE)

from_reader_match(name, data, counts) ==
    CASE name = META -> Arm(decode_meta_chunk(data, counts), FALSE)
      [] name = INST -> Arm(decode_inst_chunk(data, counts), FALSE)
      [] name = PROP -> Arm(decode_prop_chunk(data, counts), FALSE)
      [] name = PRNT -> Arm(decode_prnt_chunk(data, counts), FALSE)
      [] name = END0 -> Arm(Decoded([kind |-> "End"], counts), TRUE)
      [] OTHER -> Arm(Decoded([kind |-> "Unknown",
                               name |-> from_utf8_lossy(name),
                               contents |-> data], counts), FALSE)

NoResult == [returned |-> FALSE, num_types |-> 0, num_instances |-> 0, chunks |-> <<>>]

DecodedModel(h, cs) ==
    [returned |-> TRUE, num_types |-> h.num_types, num_instances |-> h.num_instances,
     chunks |-> cs]

(***************************************************************************)
(* Inputs: the headers and chunk frames a byte source may deliver.         *)
(* Payloads are built from field values by the format's encoding, then     *)
(* left whole, extended with trailing bytes, or cut short.                 *)
(***************************************************************************)
u32le(v) == <<v % 256, (v \div 256) % 256, (v \div 65536) % 256, (v \div 16777216) % 256>>
enc_bytes(str) == u32le(Len(str)) \o str
transform_i32(v) == IF v >= 0 THEN 2 * v ELSE -2 * v - 1
Plane32(vs, k) ==
    [i \in DOMAIN vs |->
        CASE k = 1 -> (vs[i] \div 16777216) % 256
          [] k = 2 -> (vs[i] \div 65536) % 256
          [] k = 3 -> (vs[i] \div 256) % 256
          [] OTHER -> vs[i] % 256]
Interleave32(vs) == Plane32(vs, 1) \o Plane32(vs, 2) \o Plane32(vs, 3) \o Plane32(vs, 4)
I32Lane(k) == Interleave32([i \in 1..k |-> transform_i32(i - 2)])
F32Lane(k) == Interleave32([i \in 1..k |-> 1065353216 + i])
RefLane(refs) == Interleave32([i \in DOMAIN refs |-> transform_i32(refs[i])])

\* the encoding of k sample values of the type with tag `tag`
SampleValues(tag, k) ==
    CASE tag = 1 -> Concat([i \in 1..k |->
                        enc_bytes(IF i % 2 = 1 THEN <<97>> ELSE <<255, 98>>)])
      [] tag = 2 -> [i \in 1..k |-> i % 3]
      [] tag = 3 -> I32Lane(k)
      [] tag = 4 -> F32Lane(k)
      [] tag = 5 -> Concat([i \in 1..k |-> <<i, 0, 0, 0, 0, 0, 240, 63>>])
      [] tag = 6 -> F32Lane(k) \o I32Lane(k)
      [] tag = 7 -> F32Lane(k) \o F32Lane(k) \o I32Lane(k) \o I32Lane(k)
      [] tag = 12 -> F32Lane(k) \o F32Lane(k) \o F32Lane(k)
      [] tag = 13 -> F32Lane(k) \o F32Lane(k)
      [] tag = 27 -> Zeros(7 * k) \o [i \in 1..k |-> i]
      [] OTHER -> [i \in 1..k |-> 40 + i]

\* A frame of the inputs.  Besides what the source delivers (name, declared,
\* data) it carries notes on how it was built, which no decoder reads:
\* intact (the payload's fixed fields are whole and well-formed), type_id and
\* tag (those the payload was built with, -1 when it has none) and n (the
\* instance count an INST payload declares, the number of values a PROP
\* payload can supply; -1 otherwise).
Frame(name, data, intact) ==
    [name |-> name, declared |-> Len(data), data |-> data, intact |-> intact,
     type_id |-> -1, tag |-> -1, n |-> -1]

MetaData == u32le(1) \o enc_bytes(<<107>>) \o enc_bytes(<<118>>)
MetaFrames ==
    { Frame(META, MetaData \o <<9>>, TRUE),
      Frame(META, Take(MetaData, Len(MetaData) - 1), FALSE) }

\* the referents an INST chunk of the inputs declares for a type-id
Referents(type_id, n) == [i \in 1..n |-> 4 * type_id + i - 1]
InstData(type_id, type_name, n) ==
    u32le(type_id) \o enc_bytes(type_name) \o <<0>> \o u32le(n) \o RefLane(Referents(type_id, n))
InstFrame(type_id, type_name, n, extra) ==
    [Frame(INST, InstData(type_id, type_name, n) \o extra, TRUE)
        EXCEPT !.type_id = type_id, !.n = n]
InstFrames ==
    { InstFrame(0, <<80>>, n, <<>>) : n \in 0..MaxCount }
    \cup { InstFrame(1, <<81>>, 1, <<5>>),
           Frame(INST, Take(InstData(0, <<80>>, 1), Len(InstData(0, <<80>>, 1)) - 1), FALSE),
           Frame(INST, InstData(0, <<255>>, 1), FALSE) }

\* the value-type tags of the inputs: the ten types DecodedValues::decode has
\* an arm for, a type of the enumeration that it has none for (Ray), and a tag
\* outside the enumeration
DecodedTags == {1, 2, 3, 4, 5, 6, 7, 12, 13, 27}
InputTags == DecodedTags \cup {8, 255}
PropData(type_id, tag, values) == u32le(type_id) \o enc_bytes(<<78>>) \o <<tag>> \o values
\* a PROP payload built with k sample values followed by the bytes `extra`
\* (at most three, so only a Bool array can draw further values from them)
PropFrame(type_id, tag, k, extra) ==
    [Frame(PROP, PropData(type_id, tag, SampleValues(tag, k) \o extra), TRUE)
        EXCEPT !.type_id = type_id, !.tag = tag,
               !.n = IF tag = 2 THEN k + Len(extra) ELSE k]
PropFrames ==
    { PropFrame(0, tag, MaxCount, <<7>>) : tag \in InputTags }
    \cup { PropFrame(0, tag, 1, <<>>) : tag \in {1, 3, 13} }
    \cup { PropFrame(1, tag, 1, <<7>>) : tag \in {3, 255} }
    \cup { Frame(PROP, Take(PropData(0, 3, <<>>), 6), FALSE),
           Frame(PROP, u32le(0) \o enc_bytes(<<192, 78>>) \o <<3>>, FALSE) }

PrntData(subjects, parents) ==
    <<0>> \o u32le(Len(subjects)) \o RefLane(subjects) \o RefLane(parents)
PrntFrames ==
    { Frame(PRNT, PrntData(<<0>>, <<-1>>) \o <<6>>, TRUE),
      Frame(PRNT, PrntData(<<0, 9>>, <<-1, 8>>), TRUE),
      Frame(PRNT, Take(PrntData(<<0>>, <<-1>>), 8), FALSE) }

EndFrames == { Frame(END0, <<>>, TRUE) }

\* names outside the chunk vocabulary: one that is text, two that are not
UnknownNames == { <<65, 66, 67, 68>>, <<255, 66, 67, 68>>, <<254, 66, 67, 68>> }
UnknownFrames == { Frame(name, <<1, 2, 255>>, TRUE) : name \in UnknownNames }

\* a frame whose header declares more payload than the source delivers
BrokenFrames == { [Frame(PROP, <<0, 0>>, FALSE) EXCEPT !.declared = 9] }

InputFrames ==
    MetaFrames \cup InstFrames \cup PropFrames \cup PrntFrames \cup EndFrames
    \cup UnknownFrames \cup BrokenFrames

Header(magic_ok, complete, num_types, num_instances) ==
    [magic_ok |-> magic_ok, complete |-> complete,
     num_types |-> num_types, num_instances |-> num_instances]
InputHeaders ==
    { Header(TRUE, TRUE, 0, 0), Header(TRUE, TRUE, 1, 2),
      Header(FALSE, TRUE, 0, 0), Header(TRUE, FALSE, 0, 0) }

\* what the source may still hold when the scan stops
InputTrailers ==
    { <<>>, <<Frame(END0, <<>>, TRUE)>>, <<[Frame(META, <<0>>, FALSE) EXCEPT !.declared = 9]>> }

(***************************************************************************)
(* The state machine.                                                      *)
(***************************************************************************)
\* apply_defaults_from_fixture_place has not been called
WalkNotStarted ==
    /\ database = [classes |-> <<>>]
    /\ tree = [parent |-> <<>>, instances |-> <<>>]
    /\ found_classes = {}
    /\ to_visit = <<>>
    /\ walk = "idle"
    /\ log = <<>>
    /\ inserted = <<>>
    /\ visited = <<>>

Init ==
    /\ header \in InputHeaders
    /\ unread = <<>>
    /\ source = <<>>
    /\ status = "start"
    /\ chunks = <<>>
    /\ count_by_type_id = <<>>
    /\ result = NoResult
    /\ diagnostics = <<>>
    /\ WalkNotStarted

\* let header = FileHeader::decode(&mut reader).expect("invalid file header")
DecodeHeader ==
    /\ status = "start"
    /\ status' = IF FileHeader_decode(header).ok THEN "scanning" ELSE "panicked"
    /\ UNCHANGED <<header, unread, source, chunks, count_by_type_id, result, diagnostics>>
    /\ UNCHANGED walk_vars

\* Push with the chunk put at the front of the list
Push_front(arm, trailer) ==
    IF ~arm.ok
    THEN [status |-> "panicked", chunks |-> chunks, counts |-> arm.counts,
          unread |-> unread, result |-> result]
    ELSE IF arm.break
    THEN [status |-> "done", chunks |-> <<arm.chunk>> \o chunks, counts |-> arm.counts,
          unread |-> trailer,
          result |-> DecodedModel(FileHeader_decode(header), <<arm.chunk>> \o chunks)]
    ELSE [status |-> "scanning", chunks |-> <<arm.chunk>> \o chunks, counts |-> arm.counts,
          unread |-> unread, result |-> result]

\* Push ending the scan once the header's instance count is reached
Push_counted(arm, trailer) ==
    IF ~arm.ok
    THEN [status |-> "panicked", chunks |-> chunks, counts |-> arm.counts,
          unread |-> unread, result |-> result]
    ELSE IF arm.break \/ Len(chunks) + 1 = header.num_instances
    THEN [status |-> "done", chunks |-> Append(chunks, arm.chunk), counts |-> arm.counts,
          unread |-> trailer,
          result |-> DecodedModel(FileHeader_decode(header), Append(chunks, arm.chunk))]
    ELSE [status |-> "scanning", chunks |-> Append(chunks, arm.chunk), counts |-> arm.counts,
          unread |-> unread, result |-> result]

\* The values of from_reader's locals, and of what it returns, after the
\* match arm `arm` has run; `trailer` is what the source then still holds.
Push(arm, trailer) ==
    IF ~arm.ok
    THEN [status |-> "panicked", chunks |-> chunks, counts |-> arm.counts,
          unread |-> unread, result |-> result]
    ELSE IF arm.break
    THEN [status |-> "done", chunks |-> Append(chunks, arm.chunk), counts |-> arm.counts,
          unread |-> trailer,
          result |-> DecodedModel(FileHeader_decode(header), Append(chunks, arm.chunk))]
    ELSE [status |-> "scanning", chunks |-> Append(chunks, arm.chunk), counts |-> arm.counts,
          unread |-> unread, result |-> result]

\* One iteration of the loop on the frame f that the source delivers next.
Iteration(f, trailer) ==
    LET chunk == Chunk_decode(f)
    IN  IF ~chunk.ok
        THEN [status |-> "panicked", chunks |-> chunks, counts |-> count_by_type_id,
              unread |-> unread, result |-> result]
        ELSE Push(from_reader_match(chunk.name, chunk.data, count_by_type_id), trailer)

\* the loop is at its head and the file may still grow within the bound
AtLoopHead == status = "scanning" /\ Len(source) < MaxChunks

\* the source has delivered f and the iteration on it has ended as `it`
Commit(f, it) ==
    /\ source' = Append(source, f)
    /\ status' = it.status
    /\ chunks' = it.chunks
    /\ count_by_type_id' = it.counts
    /\ unread' = it.unread
    /\ result' = it.result
    /\ UNCHANGED <<header, diagnostics>>
    /\ UNCHANGED walk_vars

ScanMeta ==
    \E f \in MetaFrames :
        /\ AtLoopHead
        /\ Commit(f, Iteration(f, <<>>))

ScanInst ==
    \E f \in InstFrames :
        /\ AtLoopHead
        /\ Commit(f, Iteration(f, <<>>))

ScanProp ==
    \E f \in PropFrames :
        /\ AtLoopHead
        /\ Commit(f, Iteration(f, <<>>))

ScanPrnt ==
    \E f \in PrntFrames :
        /\ AtLoopHead
        /\ Commit(f, Iteration(f, <<>>))

ScanEnd ==
    \E f \in EndFrames : \E trailer \in InputTrailers :
        /\ AtLoopHead
        /\ Commit(f, Iteration(f, trailer))

ScanUnknown ==
    \E f \in UnknownFrames :
        /\ AtLoopHead
        /\ Commit(f, Iteration(f, <<>>))

\* Chunk::decode returns Err on a frame it cannot read in full
ScanBroken ==
    \E f \in BrokenFrames :
        /\ AtLoopHead
        /\ Commit(f, Iteration(f, <<>>))

\* Chunk::decode at the end of the source: expect("invalid chunk") panics
EndOfSource ==
    /\ AtLoopHead
    /\ status' = "panicked"
    /\ UNCHANGED <<header, unread, source, chunks, count_by_type_id, result, diagnostics>>
    /\ UNCHANGED walk_vars

Next ==
    \/ DecodeHeader
    \/ ScanMeta
    \/ ScanInst
    \/ ScanProp
    \/ ScanPrnt
    \/ ScanEnd
    \/ ScanUnknown
    \/ ScanBroken
    \/ EndOfSource

Spec == Init /\ [][Next]_vars

(***************************************************************************)
(* generate_reflection: defaults_place.  The ReflectionDatabase is a       *)
(* record [classes], a function from class names to class descriptors      *)
(* [superclass, properties, default_properties]; an Option is a record     *)
(* with a field `some`.  The RbxTree is [parent, instances]: instance i    *)
(* has id i, its parent is parent[i] (0 is the root) and the children of   *)
(* an instance are listed by ascending id.                                 *)
(***************************************************************************)
\* largest tree, in instances below the root
MaxInstances == 3

NoName == [some |-> FALSE, name |-> ""]
SomeName(name) == [some |-> TRUE, name |-> name]

\* PropertyDescriptor { name, kind, .. }
Canonical(name, serialization, serialized_name) ==
    [name |-> name, kind |-> "Canonical", serialization |-> serialization,
     serialized_name |-> serialized_name, alias_for |-> ""]
Alias(name, alias_for) ==
    [name |-> name, kind |-> "Alias", serialization |-> "",
     serialized_name |-> "", alias_for |-> alias_for]
OtherKind(name) ==
    [name |-> name, kind |-> "Other", serialization |-> "",
     serialized_name |-> "", alias_for |-> ""]
NoDescriptor == OtherKind("")

\* Option<Descriptors>, or a panic of find_descriptors; `warned` tells
\* whether log::warn! was called
DescriptorsPanic ==
    [panic |-> TRUE, some |-> FALSE, warned |-> FALSE,
     input |-> NoDescriptor, canonical |-> NoDescriptor]
DescriptorsNone(warned) ==
    [panic |-> FALSE, some |-> FALSE, warned |-> warned,
     input |-> NoDescriptor, canonical |-> NoDescriptor]
Descriptors(input, canonical) ==
    [panic |-> FALSE, some |-> TRUE, warned |-> FALSE,
     input |-> input, canonical |-> canonical]

\* the match on prop.kind in find_descriptors, for the property `prop` found
\* on the class `class`
match_prop_kind(class, prop) ==
    CASE prop.kind = "Canonical" -> Descriptors(prop, prop)
      [] prop.kind = "Alias" ->
            IF prop.alias_for \in DOMAIN class.properties
            THEN Descriptors(prop, class.properties[prop.alias_for])
            ELSE DescriptorsPanic
      [] OTHER -> DescriptorsNone(TRUE)

\* the while loop of find_descriptors, from the class next_class_name on
RECURSIVE find_descriptors_from(_, _, _)
find_descriptors_from(db, next_class_name, prop_name) ==
    IF ~next_class_name.some THEN DescriptorsNone(FALSE)
    ELSE IF next_class_name.name \notin DOMAIN db.classes THEN DescriptorsPanic
    ELSE IF prop_name \in DOMAIN db.classes[next_class_name.name].properties
    THEN match_prop_kind(db.classes[next_class_name.name],
                         db.classes[next_class_name.name].properties[prop_name])
    ELSE find_descriptors_from(db, db.classes[next_class_name.name].superclass, prop_name)

find_descriptors(db, class_name, prop_name) ==
    find_descriptors_from(db, SomeName(class_name), prop_name)


\* a record written to the log
Logged(level, about, class_name, prop_name) ==
    [level |-> level, about |-> about, class |-> class_name, prop |-> prop_name]

\* the walk stops with a panic, whose message is written out
Panic(st, message) ==
    [st EXCEPT !.panicked = TRUE, !.log = Append(@, Logged("panic", message, "", ""))]

\* what the match on the canonical descriptor's serialization logs
serialization_log(class_name, prop_name, canonical) ==
    CASE canonical.serialization = "Serializes" ->
            IF canonical.name # prop_name
            THEN <<Logged("error", "serialized under another name", class_name, canonical.name)>>
            ELSE <<>>
      [] canonical.serialization = "DoesNotSerialize" ->
            <<Logged("error", "should not serialize", class_name, prop_name)>>
      [] canonical.serialization = "SerializesAs" ->
            IF canonical.serialized_name # prop_name
            THEN <<Logged("error", "serialized under another name", class_name, canonical.name)>>
            ELSE <<>>
      [] OTHER ->
            <<Logged("error", "unknown property serialization", class_name, canonical.name)>>

\* prop_value.clone().try_into(): the conversion of an RbxValue into the
\* database's representation of a default value
try_into(prop_value) ==
    [ok |-> prop_value.converts,
     val |-> [default_type |-> prop_value.type, default |-> prop_value.v]]

\* HashMap::insert on default_properties of the class class_name
insert_default(db, class_name, canonical_name, default) ==
    [db EXCEPT !.classes[class_name].default_properties =
        Insert(@, canonical_name, default)]

\* The state of the walk while the properties of one instance are applied:
\* the database, the log, the inserts made and whether a panic has occurred.
\* match prop_value.get_type() { .. } for the property of instance id
store_default(st, id, class_name, canonical_name, prop_value) ==
    IF prop_value.type \in {"Ref", "SharedString"} THEN st
    ELSE IF class_name \notin DOMAIN st.database.classes
    THEN [st EXCEPT !.log = Append(@, Logged("warn", "class not in API dump", class_name, ""))]
    ELSE IF ~try_into(prop_value).ok THEN Panic(st, "unwrap of try_into")
    ELSE [st EXCEPT !.database = insert_default(@, class_name, canonical_name,
                                                try_into(prop_value).val),
                    !.inserted = Append(@, [id |-> id, class |-> class_name,
                                            name |-> canonical_name])]

\* the message of the panic branch of the match on descriptors.canonical.kind
NonCanonical == "find_descriptors must not return a non-canonical descriptor as canonical"

\* the match on descriptors.canonical.kind and what follows it
with_descriptors(st, id, class_name, prop_name, prop_value, canonical) ==
    IF canonical.kind # "Canonical" THEN Panic(st, NonCanonical)
    ELSE store_default(
            [st EXCEPT !.log = @ \o serialization_log(class_name, prop_name, canonical)],
            id, class_name, canonical.name, prop_value)

\* one iteration of the loop over instance.properties, given what
\* find_descriptors has returned
for_property(st, id, class_name, prop_name, prop_value, descriptors) ==
    IF descriptors.panic THEN Panic(st, "unwrap in find_descriptors")
    ELSE IF ~descriptors.some
    THEN [st EXCEPT !.log =
            @ \o (IF descriptors.warned
                  THEN <<Logged("warn", "unknown property kind", "", "")>> ELSE <<>>)
              \o <<Logged("info", "property not in API dump", class_name, prop_name)>>]
    ELSE with_descriptors(st, id, class_name, prop_name, prop_value, descriptors.canonical)

\* the loop over instance.properties, which yields them in the order `order`
RECURSIVE for_properties(_, _, _, _)
for_properties(st, id, instance, order) ==
    IF order = <<>> \/ st.panicked THEN st
    ELSE for_properties(
            for_property(st, id, instance.class_name, Head(order),
                         instance.properties[Head(order)],
                         find_descriptors(st.database, instance.class_name, Head(order))),
            id, instance, Tail(order))

\* the orders in which a HashMap with the keys S may be iterated
Orders(S) ==
    {o \in [1..Cardinality(S) -> S] : \A i, j \in DOMAIN o : o[i] = o[j] => i = j}

\* tree.get_root_id()
get_root_id == 0
\* instance.get_children_ids()
get_children_ids(t, id) ==
    SelectSeq([i \in 1..Len(t.parent) |-> i], LAMBDA i : t.parent[i] = id)
\* an extend that puts the ids at the front of the queue
extend_front(queue, ids) == ids \o queue
\* VecDeque::extend
extend(queue, ids) == queue \o ids


(***************************************************************************)
(* The databases and trees the walk is run on.                             *)
(***************************************************************************)
ClassDescriptor(superclass, properties) ==
    [superclass |-> superclass, properties |-> properties, default_properties |-> <<>>]

InstanceProperties ==
    "Name" :> Canonical("Name", "Serializes", "")
    @@ "Archivable" :> Canonical("Archivable", "DoesNotSerialize", "")
    @@ "Link" :> Canonical("Link", "Serializes", "")
PartProperties ==
    "Size" :> Canonical("Size", "SerializesAs", "size")
    @@ "size" :> Alias("size", "Size")
    @@ "Shape" :> OtherKind("Shape")
\* a database whose aliases name canonical properties
CleanDatabase ==
    [classes |->
        "Instance" :> ClassDescriptor(NoName, InstanceProperties)
        @@ "Part" :> ClassDescriptor(SomeName("Instance"), PartProperties)]
\* the same with an alias of an alias on Part
ChainedDatabase ==
    [classes |->
        "Instance" :> ClassDescriptor(NoName, InstanceProperties)
        @@ "Part" :> ClassDescriptor(SomeName("Instance"),
                                     PartProperties @@ "Formfactor" :> Alias("Formfactor", "size"))]
InputDatabases == {CleanDatabase, ChainedDatabase}

\* an RbxValue: its type, whether try_into converts it, and its content
Value(type, converts, v) == [type |-> type, converts |-> converts, v |-> v]
Instance(class_name, properties) == [class_name |-> class_name, properties |-> properties]
InputInstances ==
    { Instance("Part", "Name" :> Value("String", TRUE, "Part")
                       @@ "size" :> Value("Vector3", TRUE, "4,1,2")),
      Instance("Instance", "Archivable" :> Value("Bool", TRUE, "true")
                           @@ "Link" :> Value("Ref", FALSE, "null")),
      Instance("Part", "Size" :> Value("Opaque", FALSE, "?")),
      Instance("Part", "Formfactor" :> Value("Enum", TRUE, "1")
                       @@ "Shape" :> Value("Enum", TRUE, "0")),
      Instance("Ghost", "Name" :> Value("String", TRUE, "Ghost")) }

\* the trees of n instances: the parent of an instance has a smaller id
Parents(n) == {p \in [1..n -> 0..n] : \A i \in 1..n : p[i] < i}
TreesOf(n) ==
    {[parent |-> p, instances |-> t] : p \in Parents(n), t \in [1..n -> InputInstances]}
InputTrees == UNION {TreesOf(n) : n \in 0..MaxInstances}

(***************************************************************************)
(* apply_defaults_from_fixture_place as a state machine.                   *)
(***************************************************************************)
\* from_reader is not running
ReaderNotStarted ==
    /\ header = Header(TRUE, TRUE, 0, 0)
    /\ unread = <<>>
    /\ source = <<>>
    /\ status = "start"
    /\ chunks = <<>>
    /\ count_by_type_id = <<>>
    /\ result = NoResult
    /\ diagnostics = <<>>

DefaultsInit ==
    /\ WalkNotStarted
    /\ ReaderNotStarted

\* apply_defaults_from_fixture_place(database, tree) is called: the locals
\* are created and the children of the root are queued
Enter ==
    /\ walk = "idle"
    /\ \E db \in InputDatabases : \E t \in InputTrees :
          /\ database' = db
          /\ tree' = t
          /\ to_visit' = extend(<<>>, get_children_ids(t, get_root_id))
    /\ walk' = "walking"
    /\ found_classes' = {}
    /\ UNCHANGED <<log, inserted, visited>>
    /\ UNCHANGED reader_vars

\* the state the walk is in after the properties of instance id were applied
Applied(id, st) ==
    /\ walk' = IF st.panicked THEN "panicked" ELSE "walking"
    /\ database' = st.database
    /\ log' = st.log
    /\ inserted' = st.inserted
    /\ found_classes' = found_classes \cup {tree.instances[id].class_name}
    /\ to_visit' = extend(Tail(to_visit), get_children_ids(tree, id))
    /\ visited' = Append(visited, id)
    /\ UNCHANGED tree
    /\ UNCHANGED reader_vars

\* an iteration of the while loop on an instance of a class not found before
VisitNew ==
    /\ walk = "walking" /\ to_visit # <<>>
    /\ tree.instances[Head(to_visit)].class_name \notin found_classes
    /\ \E order \in Orders(DOMAIN tree.instances[Head(to_visit)].properties) :
          Applied(Head(to_visit),
                  for_properties([database |-> database, log |-> log,
                                  inserted |-> inserted, panicked |-> FALSE],
                                 Head(to_visit), tree.instances[Head(to_visit)], order))

\* an iteration of the while loop on an instance of a class found before
VisitFound ==
    /\ walk = "walking" /\ to_visit # <<>>
    /\ tree.instances[Head(to_visit)].class_name \in found_classes
    /\ to_visit' = extend(Tail(to_visit), get_children_ids(tree, Head(to_visit)))
    /\ visited' = Append(visited, Head(to_visit))
    /\ UNCHANGED <<database, tree, found_classes, walk, log, inserted>>
    /\ UNCHANGED reader_vars

\* to_visit.pop_front() yields None: the function returns
Return ==
    /\ walk = "walking" /\ to_visit = <<>>
    /\ walk' = "done"
    /\ UNCHANGED <<database, tree, found_classes, to_visit, log, inserted, visited>>
    /\ UNCHANGED reader_vars

DefaultsNext ==
    \/ Enter
    \/ VisitNew
    \/ VisitFound
    \/ Return

DefaultsSpec == DefaultsInit /\ [][DefaultsNext]_vars


(***************************************************************************)
(* Properties.  chunks[i] is the chunk decoded from source[i]; after a     *)
(* panic, source holds one frame more than chunks: the one that failed     *)
(* (none more when the source ended or the header was refused).            *)
(***************************************************************************)
Last(seq) == seq[Len(seq)]
Payloaded == {"Meta", "Inst", "Prop", "Prnt"}

\* the UTF-8 encoding of a String (a sequence of scalar values)
Utf8EncOne(cp) ==
    IF cp < 128 THEN <<cp>>
    ELSE IF cp < 2048 THEN <<192 + cp \div 64, 128 + (cp % 64)>>
    ELSE IF cp < 65536 THEN <<224 + cp \div 4096, 128 + ((cp \div 64) % 64), 128 + (cp % 64)>>
    ELSE <<240 + cp \div 262144, 128 + ((cp \div 4096) % 64), 128 + ((cp \div 64) % 64), 128 + (cp % 64)>>
Utf8Enc(str) == Concat([i \in DOMAIN str |-> Utf8EncOne(str[i])])
enc_string(str) == enc_bytes(Utf8Enc(str))

RECURSIVE Sum(_)
Sum(ns) == IF ns = <<>> THEN 0 ELSE Head(ns) + Sum(Tail(ns))

\* the number of payload bytes the decoded values of a PROP chunk stand for
ValuesSize(values) ==
    IF ~values.some THEN 0
    ELSE LET v == values.vecs[1]
         IN  CASE values.variant = "String" ->
                    Sum([i \in DOMAIN v |->
                           4 + (IF v[i].variant = "String"
                                THEN Len(Utf8Enc(v[i].data)) ELSE Len(v[i].data))])
               [] values.variant = "Bool" -> Len(v)
               [] values.variant \in {"Int32", "Float32"} -> 4 * Len(v)
               [] values.variant \in {"Float64", "UDim", "Int64"} -> 8 * Len(v)
               [] values.variant = "UDim2" -> 16 * Len(v)
               [] values.variant = "Color3" -> 12 * Len(v)
               [] values.variant = "Vector2" -> 4 * Len(v) + 4 * Len(values.vecs[2])

\* the decoded fields of a chunk, encoded again (for a PROP chunk: the fields
\* before the values)
Reencoded(c) ==
    CASE c.kind = "Meta" ->
            u32le(Len(c.entries))
            \o Concat([i \in DOMAIN c.entries |->
                         enc_string(c.entries[i][1]) \o enc_string(c.entries[i][2])])
      [] c.kind = "Inst" ->
            u32le(c.type_id) \o enc_string(c.type_name) \o <<c.object_format>>
            \o u32le(Len(c.referents)) \o RefLane(c.referents)
      [] c.kind = "Prop" ->
            u32le(c.type_id) \o enc_string(c.prop_name) \o <<c.prop_type.tag>>
      [] c.kind = "Prnt" ->
            <<c.version>> \o u32le(Len(c.links))
            \o RefLane([i \in DOMAIN c.links |-> c.links[i][1]])
            \o RefLane([i \in DOMAIN c.links |-> c.links[i][2]])

\* the number of payload bytes the decoded fields of a chunk stand for
Consumed(c) ==
    Len(Reencoded(c)) + (IF c.kind = "Prop" THEN ValuesSize(c.values) ELSE 0)

\* C1: the scan stops at the first END chunk: End is pushed only as the last
\* chunk and only when from_reader returns; a returned model's chunk list ends
\* with End, which occurs in it once; the last frame read is the first END
\* frame of the source, and what the source holds after it stays unread.
C1_StopsAtEnd ==
    /\ \A i \in 1..Len(chunks) :
          chunks[i].kind = "End" => (i = Len(chunks) /\ status = "done")
    /\ (status = "done") = result.returned
    /\ result.returned =>
          /\ result.chunks # <<>>
          /\ Last(result.chunks).kind = "End"
          /\ Cardinality({i \in 1..Len(result.chunks) : result.chunks[i].kind = "End"}) = 1
          /\ Last(source).name = END0
          /\ \A i \in 1..(Len(source) - 1) : source[i].name # END0
    /\ ~result.returned => unread = <<>>

\* C1 witness: a model was returned although the source holds a further,
\* unreadable frame after the END chunk.
C1_Witness ==
    /\ result.returned
    /\ Len(result.chunks) = MaxChunks
    /\ unread # <<>>
    /\ unread[1].declared # Len(unread[1].data)

\* chunk c is the decoded form of frame f
Mirrors(c, f) ==
    CASE f.name = META -> c.kind = "Meta" /\ c.remaining = Drop(f.data, Len(f.data) - Len(c.remaining))
      [] f.name = INST -> c.kind = "Inst" /\ c.type_id = f.type_id /\ Len(c.referents) = f.n
      [] f.name = PROP -> c.kind = "Prop" /\ c.type_id = f.type_id /\ c.prop_type.tag = f.tag
      [] f.name = PRNT -> c.kind = "Prnt" /\ c.remaining = Drop(f.data, Len(f.data) - Len(c.remaining))
      [] f.name = END0 -> c.kind = "End"
      [] OTHER -> c.kind = "Unknown" /\ c.contents = f.data

\* C9: the chunk list has one entry per chunk read, in file order: while the
\* scan runs and when it returns, chunk i is the decoded form of frame i, and
\* the returned list is that list, up to and including END.
C9_EveryChunkRetained ==
    /\ Len(chunks) <= Len(source)
    /\ status # "panicked" => Len(chunks) = Len(source)
    /\ \A i \in 1..Len(chunks) : Mirrors(chunks[i], source[i])
    /\ result.returned =>
          /\ result.chunks = chunks
          /\ Len(result.chunks) = Len(source)
          /\ Last(source).name = END0

\* C9 witness: a returned model that holds an unknown chunk, then a PROP chunk
\* whose values were dropped, then END.
C9_Witness ==
    /\ result.returned
    /\ Len(result.chunks) = 3
    /\ result.chunks[1].kind = "Unknown"
    /\ result.chunks[2].kind = "Prop" /\ ~result.chunks[2].values.some
    /\ result.chunks[3].kind = "End"

\* C10: for every META, INST, PROP and PRNT chunk the decoded fields, encoded
\* again, are the head of the payload, and `remaining` is the payload from the
\* first byte after the decoded fields to its end.
C10_RemainingIsTheRest ==
    \A i \in 1..Len(chunks) :
        chunks[i].kind \in Payloaded =>
            LET c == chunks[i]
                d == source[i].data
                fields == Reencoded(c)
                consumed == Len(fields)
                            + (IF c.kind = "Prop" THEN ValuesSize(c.values) ELSE 0)
            IN  /\ consumed + Len(c.remaining) = Len(d)
                /\ c.remaining = Drop(d, consumed)
                /\ fields = Take(d, Len(fields))

\* C10 witness: a PROP chunk with decoded values and a PRNT chunk, each with
\* trailing bytes left in `remaining`.
C10_Witness ==
    \E i, j \in 1..Len(chunks) :
        /\ chunks[i].kind = "Prop" /\ chunks[i].values.some /\ chunks[i].remaining # <<>>
        /\ chunks[j].kind = "Prnt" /\ chunks[j].remaining # <<>>

\* the INST frames read before frame i that declare type-id id
Declaring(i, id) ==
    {j \in 1..(i - 1) : source[j].name = INST /\ source[j].intact /\ source[j].type_id = id}
Registered(i, id) == Declaring(i, id) # {}
Max(S) == CHOOSE m \in S : \A k \in S : k <= m
\* the count the most recent of them declares
RecordedCount(i, id) == source[Max(Declaring(i, id))].n

\* frame i is a PROP frame whose fields up to the tag are well-formed
PropAt(i) == source[i].name = PROP /\ source[i].intact
\* frame i was decoded into chunk i
DecodedAt(i) == i <= Len(chunks)
\* the decode stopped with a panic on frame i
PanickedAt(i) ==
    /\ status = "panicked" /\ ~result.returned
    /\ i = Len(source) /\ Len(chunks) = i - 1
\* the payload bytes of a PROP frame that follow the tag: those after the
\* type-id, the length-prefixed name (shorter than 256 bytes) and the tag
AfterTag(f) == Drop(f.data, 4 + (4 + f.data[5]) + 1)
\* every Vec of the decoded values holds n entries
Holds(values, n) ==
    values.some /\ \A l \in DOMAIN values.vecs : Len(values.vecs[l]) = n

C3_Original ==
    \A i \in 1..Len(source) :
        (PropAt(i) /\ source[i].tag \in DOMAIN TypeNames
                   /\ Registered(i, source[i].type_id)) =>
            \/ DecodedAt(i) /\ Holds(chunks[i].values, RecordedCount(i, source[i].type_id))
            \/ PanickedAt(i) /\ RecordedCount(i, source[i].type_id) > source[i].n

\* C3 (amended): for a PROP chunk whose type-id was registered with count N
\* and whose tag is one of the ten types DecodedValues::decode has an arm
\* for, the decoded values hold exactly N entries in every Vec when the
\* payload supplies N values, and the decode fails when it does not; for any
\* other known tag the values are absent.
C3_ValueCount ==
    \A i \in 1..Len(source) :
        (PropAt(i) /\ source[i].tag \in DOMAIN TypeNames
                   /\ Registered(i, source[i].type_id)) =>
            LET N == RecordedCount(i, source[i].type_id)
            IN  IF source[i].tag \notin DecodedTags
                THEN DecodedAt(i) /\ ~chunks[i].values.some
                ELSE IF N > source[i].n
                THEN PanickedAt(i)
                ELSE DecodedAt(i) /\ Holds(chunks[i].values, N)

\* C3 witness: a Vector2 PROP chunk decoded with both Vecs as long as the
\* count its type-id was registered with, then a PROP chunk that supplies
\* fewer values than the count, on which the decode failed.
C3_Witness ==
    /\ Len(source) = 3 /\ PanickedAt(3)
    /\ source[1].name = INST /\ source[1].n = MaxCount
    /\ PropAt(2) /\ source[2].tag = 13 /\ source[2].type_id = source[1].type_id
    /\ Len(chunks[2].values.vecs) = 2
    /\ PropAt(3) /\ source[3].type_id = source[1].type_id /\ source[3].n < MaxCount

\* the referents the INST chunks of a chunk list declare
DeclaredReferents(cs) ==
    UNION { {cs[j].referents[k] : k \in DOMAIN cs[j].referents} :
            j \in {j \in DOMAIN cs : cs[j].kind = "Inst"} }
\* the referents the links of a PRNT chunk name (-1 as parent names none)
LinkedReferents(c) ==
    {c.links[k][1] : k \in DOMAIN c.links}
    \cup ({c.links[k][2] : k \in DOMAIN c.links} \ {-1})

C5_Original ==
    \A i \in 1..Len(source) :
        (source[i].name \notin KnownNames /\ source[i].declared = Len(source[i].data)) =>
            /\ DecodedAt(i)
            /\ i = Len(source) => status # "done"
            /\ chunks[i].kind = "Unknown"
            /\ chunks[i].contents = source[i].data
            /\ \A j \in 1..Len(chunks) :
                  (chunks[j].kind = "Unknown" /\ chunks[j].name = chunks[i].name)
                      => source[j].name = source[i].name

\* C6: a PROP chunk whose tag is outside the enumeration of types decodes,
\* whether or not its type-id is registered: the decode does not fail on it,
\* its values are absent, its type is the unknown marker holding the tag
\* byte, and `remaining` is all of the payload after the tag.
C6_UnknownTag ==
    \A i \in 1..Len(source) :
        (PropAt(i) /\ source[i].tag \notin DOMAIN TypeNames) =>
            /\ DecodedAt(i)
            /\ chunks[i].kind = "Prop"
            /\ ~chunks[i].values.some
            /\ ~chunks[i].prop_type.known
            /\ chunks[i].prop_type.tag = source[i].data[4 + (4 + source[i].data[5]) + 1]
            /\ chunks[i].prop_type.tag = source[i].tag
            /\ chunks[i].remaining = AfterTag(source[i])

\* C6 witness: three chunks are decoded, two of them PROP chunks of unknown
\* tag, one for a type-id that an earlier INST chunk registered and one for
\* a type-id that none did.
C6_Witness ==
    /\ status = "scanning" /\ Len(chunks) = 3
    /\ \E i, j \in 1..Len(source) :
          /\ PropAt(i) /\ source[i].tag \notin DOMAIN TypeNames
          /\ Registered(i, source[i].type_id)
          /\ PropAt(j) /\ source[j].tag \notin DOMAIN TypeNames
          /\ ~Registered(j, source[j].type_id)

\* frame i is a PROP frame of a decoded type for a type-id that two or more
\* earlier INST chunks declared
AfterDuplicate(i) ==
    /\ PropAt(i) /\ source[i].tag \in DecodedTags
    /\ Cardinality(Declaring(i, source[i].type_id)) > 1

Malformed(i) ==
    \/ ~source[i].intact
    \/ source[i].declared # Len(source[i].data)
    \/ /\ PropAt(i) /\ source[i].tag \in DecodedTags
       /\ Registered(i, source[i].type_id)
       /\ RecordedCount(i, source[i].type_id) > source[i].n

\* C8: the decode yields a model or fails as a whole: with a header that is
\* truncated or malformed no chunk is read and no model is returned; on a
\* frame or a payload that is truncated or malformed the decode stops with a
\* panic, with no model; a model that is returned holds a fully decoded chunk
\* for every frame read, the last of them END.
C8_AllOrNothing ==
    /\ ~(header.magic_ok /\ header.complete) =>
          status \in {"start", "panicked"} /\ source = <<>> /\ ~result.returned
    /\ \A i \in 1..Len(source) : Malformed(i) => PanickedAt(i)
    /\ status = "panicked" => result = NoResult
    /\ result.returned =>
          /\ Len(result.chunks) = Len(source)
          /\ Last(result.chunks).kind = "End"
          /\ \A i \in 1..Len(source) :
                /\ ~Malformed(i)
                /\ result.chunks[i].kind \in Payloaded =>
                      Consumed(result.chunks[i]) + Len(result.chunks[i].remaining)
                          = Len(source[i].data)

\* C8 witness: two chunks were decoded and the third, a META chunk whose
\* payload is cut short, stopped the decode with no model.
C8_Witness ==
    /\ Len(source) = 3 /\ PanickedAt(3)
    /\ source[3].name = META /\ ~source[3].intact
    /\ Len(chunks) = 2
    /\ result = NoResult

\* a decode panics only on a frame that cannot be decoded or at the end of
\* the source
PanicsOnlyOnMalformed ==
    (status = "panicked" /\ Len(source) > Len(chunks)) => Malformed(Len(source))

\* The scan of a sequence of frames as a function of the frames alone: the
\* chunks decoded, whether the scan failed on the last frame, and whether it
\* stopped at END.  The header is no argument of it.
RECURSIVE Replay(_)
Replay(frames) ==
    IF frames = <<>>
    THEN [failed |-> FALSE, stopped |-> FALSE, chunks |-> <<>>, counts |-> <<>>]
    ELSE LET before == Replay(Take(frames, Len(frames) - 1))
             chunk == Chunk_decode(Last(frames))
             arm == from_reader_match(chunk.name, chunk.data, before.counts)
         IN  IF ~chunk.ok \/ ~arm.ok
             THEN [before EXCEPT !.failed = TRUE]
             ELSE [failed |-> FALSE, stopped |-> arm.break,
                   chunks |-> Append(before.chunks, arm.chunk), counts |-> arm.counts]

\* the INST frames of the source and the instances they declare
InstIndices == {i \in 1..Len(source) : source[i].name = INST /\ source[i].intact}
DeclaredTypes == Cardinality({source[i].type_id : i \in InstIndices})
DeclaredInstances == Sum([i \in 1..Len(source) |-> IF i \in InstIndices THEN source[i].n ELSE 0])

\* C11: the header's type and instance counts are advisory: the chunks
\* decoded, a failure, and the point where the scan stops are a function of
\* the frames read alone, the same for every value of the counts, and a
\* returned model holds the counts as the header states them.
C11_HeaderCountsAdvisory ==
    (header.magic_ok /\ header.complete) =>
        LET replayed == Replay(source)
        IN  /\ chunks = replayed.chunks
            /\ (status = "done") = replayed.stopped
            /\ replayed.failed => status = "panicked"
            /\ result.returned =>
                  /\ result.chunks = replayed.chunks
                  /\ result.num_types = header.num_types
                  /\ result.num_instances = header.num_instances

\* C11 witness: a returned model whose header states one type and two
\* instances while the INST chunks of the file declare two types and three
\* instances (a header that undercounts); the chunk list ends with END.
C11_Witness ==
    /\ result.returned
    /\ result.num_types = 1 /\ result.num_instances = 2
    /\ DeclaredTypes = 2 /\ DeclaredInstances = 3
    /\ Len(result.chunks) = 3

\* a header that overcounts: a returned model whose header states one type
\* while the file has no INST chunk
HeaderOvercounts ==
    /\ result.returned /\ result.num_types = 1 /\ DeclaredTypes = 0

(***************************************************************************)
(* Properties of the walk.  visited[k] is the k-th instance popped from    *)
(* to_visit.                                                               *)
(***************************************************************************)
ClassOf(id) == tree.instances[id].class_name
PropertiesOf(id) == tree.instances[id].properties
\* the k-th instance popped is the first of its class to be popped: the one
\* whose properties are applied
FirstOfClass(k) == \A j \in 1..(k - 1) : ClassOf(visited[j]) # ClassOf(visited[k])
\* the walk has stopped with a panic while it applied the properties of the
\* instance popped last
PanickedOn(id) == walk = "panicked" /\ visited # <<>> /\ Last(visited) = id
InsertedFrom(id) == {k \in DOMAIN inserted : inserted[k].id = id}

\* C12 (as the spec states it): a property value that cannot be converted
\* into the database's default-value representation is logged against its
\* class and property and skipped, and the walk goes on: it does not abort.
C12_Original ==
    \A k \in DOMAIN visited :
        FirstOfClass(k) =>
            \A prop_name \in DOMAIN PropertiesOf(visited[k]) :
                (/\ PropertiesOf(visited[k])[prop_name].type \notin {"Ref", "SharedString"}
                 /\ ~try_into(PropertiesOf(visited[k])[prop_name]).ok
                 /\ find_descriptors(database, ClassOf(visited[k]), prop_name).some) =>
                    /\ ~PanickedOn(visited[k])
                    /\ \E l \in DOMAIN log :
                          /\ log[l].class = ClassOf(visited[k])
                          /\ log[l].about = "value not converted"

\* the descriptors find_descriptors returns for a property of instance id
DescriptorsOf(id, prop_name) == find_descriptors(database, ClassOf(id), prop_name)

\* C14 (as stated): whenever find_descriptors returns a result for a property
\* of an instance the walk applies, its `canonical` descriptor has kind
\* Canonical, also when the property found is an alias whose target is an
\* alias; the walk never takes the panic branch of its match on that kind.
C14_Original ==
    /\ \A k \in DOMAIN visited :
          FirstOfClass(k) =>
              \A prop_name \in DOMAIN PropertiesOf(visited[k]) :
                  (/\ ClassOf(visited[k]) \in DOMAIN database.classes
                   /\ DescriptorsOf(visited[k], prop_name).some) =>
                      DescriptorsOf(visited[k], prop_name).canonical.kind = "Canonical"
    /\ \A l \in DOMAIN log : log[l].about # NonCanonical

\* the instances of the tree level by level, from the level `level` on: the
\* breadth-first order
RECURSIVE LevelOrderFrom(_)
LevelOrderFrom(level) ==
    IF level = <<>> THEN <<>>
    ELSE level \o LevelOrderFrom(
            Concat([k \in DOMAIN level |->
                      SelectSeq([i \in 1..Len(tree.parent) |-> i],
                                LAMBDA i : tree.parent[i] = level[k])]))
LevelOrder == LevelOrderFrom(SelectSeq([i \in 1..Len(tree.parent) |-> i],
                                       LAMBDA i : tree.parent[i] = 0))
\* the depth of an instance below the root
RECURSIVE Depth(_)
Depth(id) == IF tree.parent[id] = 0 THEN 1 ELSE 1 + Depth(tree.parent[id])
\* the position of an instance in the breadth-first order
Position(id) == CHOOSE k \in DOMAIN LevelOrder : LevelOrder[k] = id
\* id is the first instance of its class in the breadth-first order
FirstInLevelOrder(id) ==
    \A other \in DOMAIN tree.instances :
        ClassOf(other) = ClassOf(id) => Position(id) <= Position(other)
WalkEnded == walk \in {"done", "panicked"}

\* the walk pops the instances in breadth-first order, each at most once, and
\* default_properties is written only from the first instance of a class in
\* that order, which is a shallowest one
WalkIsBreadthFirst ==
    /\ Len(visited) <= Len(LevelOrder)
    /\ visited = Take(LevelOrder, Len(visited))
    /\ \A k \in DOMAIN inserted :
          /\ inserted[k].class = ClassOf(inserted[k].id)
          /\ FirstInLevelOrder(inserted[k].id)
          /\ \A other \in DOMAIN tree.instances :
                ClassOf(other) = inserted[k].class => Depth(inserted[k].id) <= Depth(other)
    /\ \A c \in DOMAIN database.classes :
          \A name \in DOMAIN database.classes[c].default_properties :
              \E k \in DOMAIN inserted : inserted[k].class = c /\ inserted[k].name = name

\* every instance of the tree was popped exactly once
AllVisited ==
    /\ Len(visited) = Len(tree.instances)
    /\ \A id \in DOMAIN tree.instances :
          Cardinality({k \in DOMAIN visited : visited[k] = id}) = 1

QueueFollowsVisited ==
    /\ Len(visited) + Len(to_visit) <= Len(LevelOrder)
    /\ visited \o to_visit = Take(LevelOrder, Len(visited) + Len(to_visit))
    /\ \A id \in DOMAIN tree.instances :
          (tree.parent[id] = 0 \/ \E k \in DOMAIN visited : visited[k] = tree.parent[id])
              => (walk = "idle" \/ \E k \in DOMAIN (visited \o to_visit) :
                                      (visited \o to_visit)[k] = id)

\* a step of the walk pops one instance or ends the walk
PopsOrEnds ==
    walk = "walking" =>
        \/ walk' = "walking" /\ Len(visited') = Len(visited) + 1
        \/ walk' = "panicked" /\ Len(visited') = Len(visited) + 1
        \/ walk' = "done" /\ to_visit = <<>> /\ visited' = visited

====
